---- MODULE Spec2Model ----
(***************************************************************************)
(* Model of setup_cluster.py: the RKE2 cluster setup script.               *)
(*                                                                         *)
(* The script is a sequential driver of external commands.  The model has  *)
(* one action per external command (or per local step between two          *)
(* commands); the outcome of every command (exit status, captured stdout)  *)
(* is chosen by the environment when the command is issued.  Every command *)
(* issued is appended to `log`, every print_step banner to `steps`.        *)
(*                                                                         *)
(* Strings whose content the code inspects (captured stdout) are sequences *)
(* of one-character strings, so that `in` and lower() are computed.        *)
(* Paths are sequences of components relative to the starting directory.   *)
(***************************************************************************)
EXTENDS Integers, Sequences, FiniteSets, TLC

\* ------------------------------------------------------------------ bounds

\* Largest number of worker addresses given on the command line.
MaxWorkers == 1

\* Largest number of advisory commands the environment lets fail in one run.
MaxFailures == 1

\* ------------------------------------------------------------ string helpers

UpperAlpha ==
    <<"A","B","C","D","E","F","G","H","I","J","K","L","M",
      "N","O","P","Q","R","S","T","U","V","W","X","Y","Z">>

LowerAlpha ==
    <<"a","b","c","d","e","f","g","h","i","j","k","l","m",
      "n","o","p","q","r","s","t","u","v","w","x","y","z">>

\* The lower-case letter of every upper-case letter.
LowerOf ==
    [c \in { UpperAlpha[j] : j \in 1..Len(UpperAlpha) } |->
        LowerAlpha[CHOOSE j \in 1..Len(UpperAlpha) : UpperAlpha[j] = c]]

\* str.lower() on one character.
LowerChar(c) == IF c \in DOMAIN LowerOf THEN LowerOf[c] ELSE c

\* str.lower()
Lower(s) == [j \in 1..Len(s) |-> LowerChar(s[j])]

\* Python's `t in s` on strings: t is a contiguous substring of s.
Contains(s, t) ==
    \E j \in 0..(Len(s) - Len(t)) : SubSeq(s, j + 1, j + Len(t)) = t

\* "Connection successful"
ConnectionToken ==
    <<"C","o","n","n","e","c","t","i","o","n"," ",
      "s","u","c","c","e","s","s","f","u","l">>

\* "inactive"
InactiveToken == <<"i","n","a","c","t","i","v","e">>

\* ------------------------------------------------- environment: what commands print

\* Captured stdout of: ssh ... 'echo 'Connection successful''
SshEchoOutputs ==
    { ConnectionToken \o <<"\n">>,
      <<"c","o","n","n","e","c","t","i","o","n"," ",
        "s","u","c","c","e","s","s","f","u","l","\n">>,
      << >> }

\* Captured stdout of: ssh ... 'sudo ufw status'
UfwStatusOutputs ==
    { <<"S","t","a","t","u","s",":"," ">> \o InactiveToken \o <<"\n">>,
      <<"S","T","A","T","U","S",":"," ","I","N","A","C","T","I","V","E","\n">>,
      <<"S","t","a","t","u","s",":"," ","a","c","t","i","v","e","\n">>,
      << >> }

\* Exit statuses a command may end with (0 success, 1 any failure).
ReturnCodes == {0, 1}

\* ------------------------------------------------------------ program data

\* The stages none of whose commands can end the run.
AdvisoryStages ==
    {"copy_ssh_keys", "setup_sudoers", "prepare_nodes", "configure_firewall",
     "verify_cluster"}

\* prepare_nodes: the four remote commands run on every node.
PrepCommands ==
    <<"sudo apt-get update -qq", "sudo apt-get install -y curl jq",
      "sudo swapoff -a", "sudo sed -i fstab">>

\* configure_firewall: master_ports, each as the command it is opened with
master_ports ==
    <<"sudo ufw allow 6443/tcp", "sudo ufw allow 9345/tcp",
      "sudo ufw allow 10250/tcp", "sudo ufw allow 2379:2380/tcp">>

\* configure_firewall: worker_ports, each as the command it is opened with
worker_ports == <<"sudo ufw allow 10250/tcp", "sudo ufw allow 30000:32767/tcp">>

\* Worker address lists the command line can give (nargs="+": at least one).
AddrPool == <<"10.211.55.29", "10.211.55.30", "10.211.55.31", "10.211.55.32">>

WorkerLists == { SubSeq(AddrPool, 1, n) : n \in 1..MaxWorkers }

\* --master-ip
MasterAddr == "10.211.55.28"

\* host recorded for a command run on the local machine
Local == "localhost"

VARIABLES
    args,             \* parsed command line flags
    worker_ips,       \* self.worker_ips
    pc,               \* position of the run
    i,                \* index of the node of the running per-node loop
    k,                \* index of the command / port within the node
    prereq_all_ok,    \* all_ok of check_prerequisites
    conn_all_ok,      \* all_ok of test_ssh_connections
    keyExists,        \* self.ssh_key_path.exists() in the file system
    keyRemoved,       \* the key file was removed after the prerequisite check
    clusterDirExists, \* the directory "cluster" exists under the start directory
    cwd,              \* process working directory, relative to the start directory
    kubeconfig,       \* os.environ["KUBECONFIG"], << >> while not set by the run
    log,              \* the external commands issued so far, with their outcomes
    steps,            \* the print_step banners so far: the stages entered
    exitCode          \* process exit status, meaningful when pc = "done"

vars ==
    <<args, worker_ips, pc, i, k, prereq_all_ok, conn_all_ok, keyExists,
      keyRemoved, clusterDirExists, cwd, kubeconfig, log, steps, exitCode>>

\* self.all_nodes = [master_ip] + worker_ips
all_nodes == <<MasterAddr>> \o worker_ips

master_ip == MasterAddr

\* ------------------------------------------------------------ run_command

\* One issued command and what it returned.
CmdAt(dir, stage, cmd, host, rc, out) ==
    [stage |-> stage, cmd |-> cmd, host |-> host, cwd |-> dir, rc |-> rc,
     out |-> out]

Cmd(stage, cmd, host, rc, out) == CmdAt(cwd, stage, cmd, host, rc, out)

\* Commands whose failure the code only logs.
AdvisoryEntry(e) ==
    e.stage \in AdvisoryStages \/ e.cmd = "kubectl version --client"

\* Number of advisory commands that have failed so far.
AdvisoryFailures ==
    Cardinality({ j \in 1..Len(log) : log[j].rc # 0 /\ AdvisoryEntry(log[j]) })

\* Exit statuses the environment may give the next advisory command.
AdvisoryCodes == IF AdvisoryFailures < MaxFailures THEN ReturnCodes ELSE {0}

\* sys.exit(code), and the return from main() (code 0)
Exit(code) == pc' = "done" /\ exitCode' = code

\* ------------------------------------------------------------ Init

Flags == [skip_prep : BOOLEAN, skip_firewall : BOOLEAN,
          destroy : BOOLEAN, verify_only : BOOLEAN]

Init ==
    /\ args \in Flags
    /\ worker_ips \in WorkerLists
    /\ pc = "main"
    /\ i = 1
    /\ k = 1
    /\ prereq_all_ok = TRUE
    /\ conn_all_ok = TRUE
    /\ keyExists \in BOOLEAN
    /\ keyRemoved = FALSE
    /\ clusterDirExists \in BOOLEAN
    /\ cwd = << >>
    /\ kubeconfig = << >>
    /\ log = << >>
    /\ steps = << >>
    /\ exitCode = 0

\* ------------------------------------------------------------ main

\* Variant: --verify-only is tested before --destroy.
MainRoute_VerifyFirst(a) ==
    IF a.verify_only THEN "verify_cluster"
    ELSE IF a.destroy THEN "terraform_destroy"
    ELSE "check_prerequisites"

\* main(): which path the flags select.
MainRoute(a) ==
    IF a.destroy THEN "terraform_destroy"
    ELSE IF a.verify_only THEN "verify_cluster"
    ELSE "check_prerequisites"

Main ==
    /\ pc = "main"
    /\ pc' = MainRoute(args)
    /\ UNCHANGED <<args, worker_ips, i, k, prereq_all_ok, conn_all_ok,
                   keyExists, keyRemoved, clusterDirExists, cwd, kubeconfig,
                   log, steps, exitCode>>

\* terraform_destroy(), then main() returns.
TerraformDestroy ==
    /\ pc = "terraform_destroy"
    /\ \E rc \in ReturnCodes :
        /\ log' = Append(log, Cmd("terraform_destroy",
                                  "terraform destroy -auto-approve", Local, rc, << >>))
        /\ Exit(IF rc = 0 THEN 0 ELSE 1)
    /\ steps' = Append(steps, "terraform_destroy")
    /\ UNCHANGED <<args, worker_ips, i, k, prereq_all_ok, conn_all_ok,
                   keyExists, keyRemoved, clusterDirExists, cwd, kubeconfig>>

\* ------------------------------------------------------------ check_prerequisites

\* all_ok after the terraform probe
AllOkAfterTerraform(rc) == rc = 0

\* Variant: a missing kubectl fails the prerequisite check.
AllOkAfterKubectl_Required(all_ok, rc) == all_ok /\ rc = 0

\* all_ok after the kubectl probe: a missing kubectl is a warning only
AllOkAfterKubectl(all_ok, rc) == all_ok

\* Variant: a missing key file is only reported.
AllOkAfterKey_Ignored(all_ok, exists) == all_ok

\* all_ok after the key file check
AllOkAfterKey(all_ok, exists) == all_ok /\ exists

CheckTerraform ==
    /\ pc = "check_prerequisites"
    /\ \E rc \in ReturnCodes :
        /\ log' = Append(log, Cmd("check_prerequisites", "terraform version",
                                  Local, rc, << >>))
        /\ prereq_all_ok' = AllOkAfterTerraform(rc)
    /\ steps' = Append(steps, "check_prerequisites")
    /\ pc' = "check_kubectl"
    /\ UNCHANGED <<args, worker_ips, i, k, conn_all_ok, keyExists, keyRemoved,
                   clusterDirExists, cwd, kubeconfig, exitCode>>

CheckKubectl ==
    /\ pc = "check_kubectl"
    /\ \E rc \in AdvisoryCodes :
        /\ log' = Append(log, Cmd("check_prerequisites", "kubectl version --client",
                                  Local, rc, << >>))
        /\ prereq_all_ok' = AllOkAfterKubectl(prereq_all_ok, rc)
    /\ pc' = "check_key"
    /\ UNCHANGED <<args, worker_ips, i, k, conn_all_ok, keyExists, keyRemoved,
                   clusterDirExists, cwd, kubeconfig, steps, exitCode>>

\* The key file check, the return of all_ok, and main()'s exit on False.
CheckKey ==
    /\ pc = "check_key"
    /\ prereq_all_ok' = AllOkAfterKey(prereq_all_ok, keyExists)
    /\ IF prereq_all_ok'
       THEN pc' = "generate_ssh_key" /\ UNCHANGED exitCode
       ELSE Exit(1)
    /\ UNCHANGED <<args, worker_ips, i, k, conn_all_ok, keyExists, keyRemoved,
                   clusterDirExists, cwd, kubeconfig, log, steps>>

\* ------------------------------------------------------------ generate_ssh_key

\* The file system between the prerequisite check and generate_ssh_key's own
\* exists() test: another process may remove the key file.
KeyFileRemoved ==
    /\ pc = "generate_ssh_key"
    /\ keyExists
    /\ keyExists' = FALSE
    /\ keyRemoved' = TRUE
    /\ UNCHANGED <<args, worker_ips, pc, i, k, prereq_all_ok, conn_all_ok,
                   clusterDirExists, cwd, kubeconfig, log, steps, exitCode>>

GenerateSshKey ==
    /\ pc = "generate_ssh_key"
    /\ steps' = Append(steps, "generate_ssh_key")
    /\ \/ /\ keyExists
          /\ pc' = "copy_ssh_keys"
          /\ UNCHANGED <<log, keyExists, exitCode>>
       \/ /\ ~keyExists
          /\ \E rc \in ReturnCodes :
              /\ log' = Append(log, Cmd("generate_ssh_key", "ssh-keygen",
                                        Local, rc, << >>))
              /\ IF rc = 0
                 THEN pc' = "copy_ssh_keys" /\ keyExists' = TRUE /\ UNCHANGED exitCode
                 ELSE Exit(1) /\ UNCHANGED keyExists
    /\ i' = 1
    /\ UNCHANGED <<args, worker_ips, k, prereq_all_ok, conn_all_ok, keyRemoved,
                   clusterDirExists, cwd, kubeconfig>>

\* ------------------------------------------------------------ copy_ssh_keys

\* print_step at the entry of a per-node stage
Banner(stage) == IF i = 1 /\ k = 1 THEN Append(steps, stage) ELSE steps

CopySshKeys ==
    /\ pc = "copy_ssh_keys"
    /\ steps' = Banner("copy_ssh_keys")
    /\ \E rc \in AdvisoryCodes :
        log' = Append(log, Cmd("copy_ssh_keys", "ssh-copy-id", all_nodes[i], rc, << >>))
    /\ IF i < Len(all_nodes)
       THEN i' = i + 1 /\ pc' = pc
       ELSE i' = 1 /\ pc' = "test_ssh_connections"
    /\ UNCHANGED <<args, worker_ips, k, prereq_all_ok, conn_all_ok, keyExists,
                   keyRemoved, clusterDirExists, cwd, kubeconfig, exitCode>>

\* ------------------------------------------------------------ test_ssh_connections

\* The per-node test: returncode == 0 and "Connection successful" in stdout
NodeConnected(rc, stdout) == rc = 0 /\ Contains(stdout, ConnectionToken)

\* Variant: all_ok is overwritten by each node's result (the last node wins).
AllOkAfterNode_LastWins(all_ok, rc, stdout) == NodeConnected(rc, stdout)

\* all_ok after one node
AllOkAfterNode(all_ok, rc, stdout) == all_ok /\ NodeConnected(rc, stdout)

\* After the probe of node number n: the loop goes on over all_nodes; after
\* the last node the function returns all_ok and main() exits 1 on False.
AfterProbe(n, all_ok) ==
    IF n < Len(all_nodes) THEN "test_ssh_connections"
    ELSE IF all_ok THEN "setup_sudoers" ELSE "exit"

TestSshConnections ==
    /\ pc = "test_ssh_connections"
    /\ steps' = Banner("test_ssh_connections")
    /\ \E rc \in ReturnCodes, out \in SshEchoOutputs :
        /\ log' = Append(log, Cmd("test_ssh_connections", "echo", all_nodes[i], rc, out))
        /\ conn_all_ok' = AllOkAfterNode(IF i = 1 THEN TRUE ELSE conn_all_ok, rc, out)
    /\ LET next == AfterProbe(i, conn_all_ok') IN
        IF next = "exit"
        THEN Exit(1) /\ i' = i
        ELSE /\ pc' = next
             /\ i' = IF next = "test_ssh_connections" THEN i + 1 ELSE 1
             /\ UNCHANGED exitCode
    /\ UNCHANGED <<args, worker_ips, k, prereq_all_ok, keyExists, keyRemoved,
                   clusterDirExists, cwd, kubeconfig>>

\* ------------------------------------------------------------ setup_sudoers

\* Variant: a failing node ends the loop (the stage goes on with `after`).
NextNode_Stop(after) ==
    IF i < Len(all_nodes) /\ log'[Len(log')].rc = 0
    THEN i' = i + 1 /\ pc' = "setup_sudoers"
    ELSE i' = 1 /\ pc' = after

\* The loop of a per-node stage: the next node, or the stage after it.
NextNode(after) ==
    IF i < Len(all_nodes)
    THEN i' = i + 1 /\ pc' = "setup_sudoers"
    ELSE i' = 1 /\ pc' = after

\* Variant: --skip-prep jumps to terraform, skipping the firewall stage too.
AfterSudoers_SkipBoth(a) ==
    IF ~a.skip_prep THEN "prepare_nodes" ELSE "terraform_init"

\* main(): what follows setup_sudoers
AfterSudoers(a) ==
    IF ~a.skip_prep THEN "prepare_nodes"
    ELSE IF ~a.skip_firewall THEN "configure_firewall"
    ELSE "terraform_init"

\* main(): what follows prepare_nodes
AfterPrepare(a) ==
    IF ~a.skip_firewall THEN "configure_firewall" ELSE "terraform_init"

\* echo ... | sudo tee /etc/sudoers.d/<user>
SudoersTee ==
    /\ pc = "setup_sudoers"
    /\ steps' = Banner("setup_sudoers")
    /\ \E rc \in AdvisoryCodes :
        /\ log' = Append(log, Cmd("setup_sudoers", "sudo tee sudoers.d", all_nodes[i],
                                  rc, << >>))
        /\ IF rc = 0
           THEN pc' = "sudoers_chmod" /\ i' = i
           ELSE NextNode(AfterSudoers(args))
    /\ UNCHANGED <<args, worker_ips, k, prereq_all_ok, conn_all_ok, keyExists,
                   keyRemoved, clusterDirExists, cwd, kubeconfig, exitCode>>

\* sudo chmod 0440 /etc/sudoers.d/<user>: the result is not looked at
SudoersChmod ==
    /\ pc = "sudoers_chmod"
    /\ \E rc \in AdvisoryCodes :
        log' = Append(log, Cmd("setup_sudoers", "sudo chmod 0440 sudoers.d",
                               all_nodes[i], rc, << >>))
    /\ pc' = "sudoers_test"
    /\ UNCHANGED <<args, worker_ips, i, k, prereq_all_ok, conn_all_ok, keyExists,
                   keyRemoved, clusterDirExists, cwd, kubeconfig, steps, exitCode>>

\* sudo ls /root
SudoersTest ==
    /\ pc = "sudoers_test"
    /\ \E rc \in AdvisoryCodes :
        log' = Append(log, Cmd("setup_sudoers", "sudo ls /root", all_nodes[i],
                               rc, << >>))
    /\ NextNode(AfterSudoers(args))
    /\ UNCHANGED <<args, worker_ips, k, prereq_all_ok, conn_all_ok, keyExists,
                   keyRemoved, clusterDirExists, cwd, kubeconfig, steps, exitCode>>

\* ------------------------------------------------------------ prepare_nodes

PrepareNodes ==
    /\ pc = "prepare_nodes"
    /\ steps' = Banner("prepare_nodes")
    /\ \E rc \in AdvisoryCodes :
        log' = Append(log, Cmd("prepare_nodes", PrepCommands[k], all_nodes[i],
                               rc, << >>))
    /\ IF k < Len(PrepCommands)
       THEN k' = k + 1 /\ i' = i /\ pc' = pc
       ELSE /\ k' = 1
            /\ IF i < Len(all_nodes)
               THEN i' = i + 1 /\ pc' = pc
               ELSE i' = 1 /\ pc' = AfterPrepare(args)
    /\ UNCHANGED <<args, worker_ips, prereq_all_ok, conn_all_ok, keyExists,
                   keyRemoved, clusterDirExists, cwd, kubeconfig, exitCode>>

\* ------------------------------------------------------------ configure_firewall

\* Variant: the test is case-sensitive (no lower()).
UfwInactive_CaseSensitive(stdout) == Contains(stdout, InactiveToken)

\* "inactive" in stdout.lower()
UfwInactive(stdout) == Contains(Lower(stdout), InactiveToken)

\* sudo ufw status on the master; the exit status is not looked at
UfwStatus ==
    /\ pc = "configure_firewall"
    /\ steps' = Append(steps, "configure_firewall")
    /\ \E rc \in AdvisoryCodes, out \in UfwStatusOutputs :
        /\ log' = Append(log, Cmd("configure_firewall", "sudo ufw status", master_ip,
                                  rc, out))
        /\ pc' = IF UfwInactive(out) THEN "terraform_init" ELSE "ufw_master"
    /\ i' = 1
    /\ k' = 1
    /\ UNCHANGED <<args, worker_ips, prereq_all_ok, conn_all_ok, keyExists,
                   keyRemoved, clusterDirExists, cwd, kubeconfig, exitCode>>

\* sudo ufw allow <port> on the master, for each of master_ports
UfwAllowMaster ==
    /\ pc = "ufw_master"
    /\ \E rc \in AdvisoryCodes :
        log' = Append(log, Cmd("configure_firewall", master_ports[k],
                               master_ip, rc, << >>))
    /\ IF k < Len(master_ports)
       THEN k' = k + 1 /\ pc' = pc
       ELSE k' = 1 /\ pc' = IF Len(worker_ips) > 0 THEN "ufw_worker" ELSE "terraform_init"
    /\ i' = 1
    /\ UNCHANGED <<args, worker_ips, prereq_all_ok, conn_all_ok, keyExists,
                   keyRemoved, clusterDirExists, cwd, kubeconfig, steps, exitCode>>

\* sudo ufw allow <port> on each worker, for each of worker_ports
UfwAllowWorker ==
    /\ pc = "ufw_worker"
    /\ \E rc \in AdvisoryCodes :
        log' = Append(log, Cmd("configure_firewall", worker_ports[k],
                               worker_ips[i], rc, << >>))
    /\ IF k < Len(worker_ports)
       THEN k' = k + 1 /\ i' = i /\ pc' = pc
       ELSE /\ k' = 1
            /\ IF i < Len(worker_ips)
               THEN i' = i + 1 /\ pc' = pc
               ELSE i' = 1 /\ pc' = "terraform_init"
    /\ UNCHANGED <<args, worker_ips, prereq_all_ok, conn_all_ok, keyExists,
                   keyRemoved, clusterDirExists, cwd, kubeconfig, steps, exitCode>>

\* ------------------------------------------------------------ terraform

\* os.chdir(name): the new working directory
Chdir(dir, name) == Append(dir, name)

\* A terraform step: the next step on success, sys.exit(1) on failure.
\* os.chdir("cluster") raises FileNotFoundError when the directory is
\* missing; the exception is not caught and the interpreter exits 1.
TerraformInit ==
    /\ pc = "terraform_init"
    /\ steps' = Append(steps, "terraform_init")
    /\ \/ /\ ~clusterDirExists
          /\ Exit(1)
          /\ UNCHANGED <<cwd, log>>
       \/ /\ clusterDirExists
          /\ cwd' = Chdir(cwd, "cluster")
          /\ \E rc \in ReturnCodes :
              /\ log' = Append(log, CmdAt(cwd', "terraform_init", "terraform init",
                                          Local, rc, << >>))
              /\ IF rc = 0
                 THEN pc' = "terraform_validate" /\ UNCHANGED exitCode
                 ELSE Exit(1)
    /\ UNCHANGED <<args, worker_ips, i, k, prereq_all_ok, conn_all_ok, keyExists,
                   keyRemoved, clusterDirExists, kubeconfig>>

TerraformValidate ==
    /\ pc = "terraform_validate"
    /\ steps' = Append(steps, "terraform_validate")
    /\ \E rc \in ReturnCodes :
        /\ log' = Append(log, Cmd("terraform_validate", "terraform validate",
                                  Local, rc, << >>))
        /\ IF rc = 0
           THEN pc' = "terraform_plan" /\ UNCHANGED exitCode
           ELSE Exit(1)
    /\ UNCHANGED <<args, worker_ips, i, k, prereq_all_ok, conn_all_ok, keyExists,
                   keyRemoved, clusterDirExists, cwd, kubeconfig>>

\* Variant: a failed plan is reported but the run goes on to apply.
TerraformPlan_NoExit ==
    /\ pc = "terraform_plan"
    /\ steps' = Append(steps, "terraform_plan")
    /\ \E rc \in ReturnCodes :
        log' = Append(log, Cmd("terraform_plan", "terraform plan", Local, rc, << >>))
    /\ pc' = "terraform_apply"
    /\ UNCHANGED <<args, worker_ips, i, k, prereq_all_ok, conn_all_ok, keyExists,
                   keyRemoved, clusterDirExists, cwd, kubeconfig, exitCode>>

TerraformPlan ==
    /\ pc = "terraform_plan"
    /\ steps' = Append(steps, "terraform_plan")
    /\ \E rc \in ReturnCodes :
        /\ log' = Append(log, Cmd("terraform_plan", "terraform plan",
                                  Local, rc, << >>))
        /\ IF rc = 0
           THEN pc' = "terraform_apply" /\ UNCHANGED exitCode
           ELSE Exit(1)
    /\ UNCHANGED <<args, worker_ips, i, k, prereq_all_ok, conn_all_ok, keyExists,
                   keyRemoved, clusterDirExists, cwd, kubeconfig>>

TerraformApply ==
    /\ pc = "terraform_apply"
    /\ steps' = Append(steps, "terraform_apply")
    /\ \E rc \in ReturnCodes :
        /\ log' = Append(log, Cmd("terraform_apply", "terraform apply -auto-approve",
                                  Local, rc, << >>))
        /\ IF rc = 0
           THEN pc' = "verify_cluster" /\ UNCHANGED exitCode
           ELSE Exit(1)
    /\ UNCHANGED <<args, worker_ips, i, k, prereq_all_ok, conn_all_ok, keyExists,
                   keyRemoved, clusterDirExists, cwd, kubeconfig>>

\* ------------------------------------------------------------ verify_cluster

\* Path.cwd() / "kubeconfig.yaml"
KubeconfigPath(dir) == dir \o <<"kubeconfig.yaml">>

\* The three read-only queries, in order.
KubectlQueries == <<"kubectl get nodes", "kubectl get pods -A", "kubectl cluster-info">>

\* The banner, os.environ["KUBECONFIG"] = ..., and the fixed sleep.
VerifyExport ==
    /\ pc = "verify_cluster"
    /\ steps' = Append(steps, "verify_cluster")
    /\ kubeconfig' = KubeconfigPath(cwd)
    /\ pc' = "kubectl"
    /\ k' = 1
    /\ UNCHANGED <<args, worker_ips, i, prereq_all_ok, conn_all_ok, keyExists,
                   keyRemoved, clusterDirExists, cwd, log, exitCode>>

\* One kubectl query; after the third, verify_cluster and main() return.
Kubectl ==
    /\ pc = "kubectl"
    /\ \E rc \in AdvisoryCodes :
        log' = Append(log, Cmd("verify_cluster", KubectlQueries[k], Local, rc, << >>))
    /\ IF k < Len(KubectlQueries)
       THEN k' = k + 1 /\ pc' = pc /\ UNCHANGED exitCode
       ELSE k' = 1 /\ Exit(0)
    /\ UNCHANGED <<args, worker_ips, i, prereq_all_ok, conn_all_ok, keyExists,
                   keyRemoved, clusterDirExists, cwd, kubeconfig, steps>>

\* ------------------------------------------------------------ specification

Next ==
    \/ Main
    \/ TerraformDestroy
    \/ CheckTerraform
    \/ CheckKubectl
    \/ CheckKey
    \/ KeyFileRemoved
    \/ GenerateSshKey
    \/ CopySshKeys
    \/ TestSshConnections
    \/ SudoersTee
    \/ SudoersChmod
    \/ SudoersTest
    \/ PrepareNodes
    \/ UfwStatus
    \/ UfwAllowMaster
    \/ UfwAllowWorker
    \/ TerraformInit
    \/ TerraformValidate
    \/ TerraformPlan
    \/ TerraformApply
    \/ VerifyExport
    \/ Kubectl

Spec == Init /\ [][Next]_vars

\* ------------------------------------------------------------ vocabulary of the properties

Range(f) == { f[j] : j \in DOMAIN f }

\* The commands a stage has issued, in order.
StageEntries(stage) == SelectSeq(log, LAMBDA e : e.stage = stage)

\* The (host, command) pairs of a sequence of entries.
Issued(seq) == [j \in 1..Len(seq) |-> <<seq[j].host, seq[j].cmd>>]

Done == pc = "done"

\* A provisioning run: neither --destroy nor --verify-only.
FullRun == ~args.destroy /\ ~args.verify_only

\* The stage has been entered and the run is no longer inside it.
Left(stage, positions) == stage \in Range(steps) /\ pc \notin positions

\* A command with this name has run and returned 0.
ReturnedZero(cmd) == \E x \in DOMAIN log : LET e == log[x] IN e.cmd = cmd /\ e.rc = 0

\* A command with this name has run and returned non-zero.
ReturnedNonZero(cmd) == \E x \in DOMAIN log : LET e == log[x] IN e.cmd = cmd /\ e.rc # 0

\* The key file existed when check_prerequisites looked for it.
KeyFileAtCheck == keyExists \/ keyRemoved

PrereqPositions == {"main", "check_prerequisites", "check_kubectl", "check_key"}

\* check_prerequisites has returned.
PrereqReturned == FullRun /\ pc \notin PrereqPositions

\* The token is in the output, character by character.
HasToken(out) ==
    \E j \in 0..(Len(out) - Len(ConnectionToken)) :
        \A n \in 1..Len(ConnectionToken) : out[j + n] = ConnectionToken[n]

\* The probe of every node of all_nodes succeeded.
ConnPassed ==
    \A h \in 1..Len(all_nodes) :
        \E j \in DOMAIN log :
            /\ log[j].stage = "test_ssh_connections"
            /\ log[j].host = all_nodes[h]
            /\ log[j].rc = 0
            /\ HasToken(log[j].out)

\* The order of the stages of a provisioning run.
StageOrder ==
    <<"check_prerequisites", "generate_ssh_key", "copy_ssh_keys",
      "test_ssh_connections", "setup_sudoers", "prepare_nodes",
      "configure_firewall", "terraform_init", "terraform_validate",
      "terraform_plan", "terraform_apply", "verify_cluster">>

Stages == Range(StageOrder)

StageIndexOf ==
    [stage \in Stages |->
        CHOOSE n \in 1..Len(StageOrder) : StageOrder[n] = stage]

StageIndex(stage) == StageIndexOf[stage]

\* No command of a stage after `stage` has been issued.
NothingAfter(stage) ==
    \A x \in DOMAIN log : LET e == log[x] IN
        e.stage \in Stages /\ StageIndex(e.stage) <= StageIndex(stage)

TerraformSteps ==
    <<"terraform init", "terraform validate", "terraform plan",
      "terraform apply -auto-approve">>

TerraformStepSet == Range(TerraformSteps)

\* ------------------------------------------------------------ C1

\* C1: in a run with neither --destroy nor --verify-only, the process exits 0
\* if and only if the terraform probe returned 0, the key file existed, the
\* connectivity check passed on every node and terraform init, validate, plan
\* and apply each returned 0; the prerequisite check's result is exactly
\* "terraform probe returned 0 and the key file exists", whatever the kubectl
\* probe returned; no advisory outcome enters the exit code.
C1_ExitZeroIff ==
    /\ PrereqReturned =>
        (prereq_all_ok <=> (ReturnedZero("terraform version") /\ KeyFileAtCheck))
    /\ (FullRun /\ Done) =>
        (exitCode = 0 <=>
            /\ ReturnedZero("terraform version")
            /\ KeyFileAtCheck
            /\ ConnPassed
            /\ \A n \in 1..Len(TerraformSteps) : ReturnedZero(TerraformSteps[n]))

\* A provisioning run that exits 0 although kubectl is missing.
C1_Witness ==
    /\ FullRun /\ Done /\ exitCode = 0
    /\ ReturnedNonZero("kubectl version --client")

\* ------------------------------------------------------------ C2

\* The probe of some node failed.
ConnFailed ==
    \E x \in DOMAIN log : LET e == log[x] IN
        e.stage = "test_ssh_connections" /\ ~(e.rc = 0 /\ HasToken(e.out))

\* test_ssh_connections has probed its last node.
ConnReturned ==
    FullRun /\ Len(StageEntries("test_ssh_connections")) >= Len(all_nodes)

\* C2: when a fatal stage fails the process ends at once with exit code 1 and
\* no command of a later stage is ever issued: a failed prerequisite check is
\* followed by no command at all, a failed connectivity check by no
\* sudo-setup, preparation, firewall or terraform command, and a failed
\* terraform step is the last command of the run.
C2_FatalStops ==
    /\ (PrereqReturned /\ ~(ReturnedZero("terraform version") /\ KeyFileAtCheck)) =>
        /\ Done /\ exitCode = 1
        /\ NothingAfter("check_prerequisites")
    /\ (FullRun /\ ConnFailed) => NothingAfter("test_ssh_connections")
    /\ (ConnReturned /\ ConnFailed) => (Done /\ exitCode = 1)
    /\ \A j \in 1..Len(log) :
        (log[j].cmd \in TerraformStepSet /\ log[j].rc # 0) =>
            /\ j = Len(log)
            /\ Done /\ exitCode = 1
            /\ NothingAfter(log[j].stage)

\* terraform plan has failed after init and validate succeeded.
C2_Witness ==
    /\ Done /\ exitCode = 1
    /\ ReturnedZero("terraform validate")
    /\ ReturnedNonZero("terraform plan")

\* ------------------------------------------------------------ C3

\* test_ssh_connections has been entered and has returned.
ConnLeft == Left("test_ssh_connections", {"test_ssh_connections"})

\* C3: test_ssh_connections returns true only if "Connection successful" is
\* in the captured output of every node; one node without it makes the result
\* false (and the run exit 1).  The nodes probed are always a prefix of
\* all_nodes, leader first, each once, and the function returns only after
\* the last node, whatever the earlier nodes answered.
C3_ConnectionsAnd ==
    LET probes == StageEntries("test_ssh_connections") IN
    /\ Len(probes) <= Len(all_nodes)
    /\ \A j \in 1..Len(probes) : probes[j].host = all_nodes[j]
    /\ ConnLeft =>
        /\ Len(probes) = Len(all_nodes)
        /\ conn_all_ok => \A j \in 1..Len(probes) : HasToken(probes[j].out)
        /\ (\E j \in 1..Len(probes) : ~HasToken(probes[j].out)) =>
            (~conn_all_ok /\ Done /\ exitCode = 1)

\* The leader's output lacks the token, the last node's has it, and the last
\* node has been probed all the same.
C3_Witness ==
    LET probes == StageEntries("test_ssh_connections") IN
    /\ ConnLeft
    /\ Len(probes) = Len(all_nodes)
    /\ Len(probes) > 1
    /\ ~HasToken(probes[1].out)
    /\ probes[Len(probes)].rc = 0 /\ HasToken(probes[Len(probes)].out)

\* ------------------------------------------------------------ C4

\* The output contains "inactive" in any mix of cases.
SaysInactive(out) ==
    LET low == [n \in 1..Len(out) |-> LowerChar(out[n])] IN
    \E j \in 0..(Len(out) - Len(InactiveToken)) :
        \A n \in 1..Len(InactiveToken) : low[j + n] = InactiveToken[n]

FirewallPositions == {"configure_firewall", "ufw_master", "ufw_worker"}

\* The port-opening commands issued so far, as (host, command) pairs.
PortOpenings ==
    Issued(SelectSeq(log, LAMBDA e : e.stage = "configure_firewall"
                                     /\ e.cmd # "sudo ufw status"))

\* The port-opening commands of a full firewall stage: the leader's four,
\* then each worker's two.
AllPortOpenings ==
    [n \in 1..Len(master_ports) |-> <<master_ip, master_ports[n]>>]
    \o [n \in 1..(Len(worker_ips) * Len(worker_ports)) |->
          <<worker_ips[((n - 1) \div Len(worker_ports)) + 1],
            worker_ports[((n - 1) % Len(worker_ports)) + 1]>>]

\* C4: the firewall stage probes the leader only, once; if the probe's output
\* contains "inactive" in any case, no port-opening command is issued to any
\* host; otherwise, whatever the probe's exit status and even with an empty
\* output, the leader gets its four port-opening commands and each worker
\* its two.
C4_FirewallGate ==
    LET probes == SelectSeq(log, LAMBDA e : e.cmd = "sudo ufw status") IN
    /\ Len(probes) <= 1
    /\ \A j \in 1..Len(probes) : probes[j].host = master_ip
    /\ (Len(probes) = 0) => PortOpenings = << >>
    /\ \A j \in 1..Len(probes) :
        IF SaysInactive(probes[j].out)
        THEN PortOpenings = << >>
        ELSE Left("configure_firewall", FirewallPositions) =>
                PortOpenings = AllPortOpenings

\* The probe failed with an empty output and every port has been opened.
C4_Witness ==
    /\ Left("configure_firewall", FirewallPositions)
    /\ \E x \in DOMAIN log :
        log[x].cmd = "sudo ufw status" /\ log[x].rc # 0 /\ log[x].out = << >>
    /\ PortOpenings = AllPortOpenings

\* ------------------------------------------------------------ C5

\* The commands a complete per-node stage issues: every command of `cmds`
\* on every node of all_nodes, node by node.
OnEveryNode(cmds) ==
    [n \in 1..(Len(all_nodes) * Len(cmds)) |->
        <<all_nodes[((n - 1) \div Len(cmds)) + 1], cmds[((n - 1) % Len(cmds)) + 1]>>]

\* The first commands given to the nodes by setup_sudoers.
SudoersFirst ==
    Issued(SelectSeq(log, LAMBDA e : e.cmd = "sudo tee sudoers.d"))

\* Some failure that the code treats as fatal has happened.
FatalFailure ==
    \/ ReturnedNonZero("terraform version")
    \/ PrereqReturned /\ ~KeyFileAtCheck
    \/ ReturnedNonZero("ssh-keygen")
    \/ ConnFailed
    \/ "terraform_init" \in Range(steps) /\ ~clusterDirExists
    \/ \E n \in 1..Len(TerraformSteps) : ReturnedNonZero(TerraformSteps[n])
    \/ ReturnedNonZero("terraform destroy -auto-approve")

\* The stage after `stage` has started or is about to.
Started(stage) == pc = stage \/ stage \in Range(steps)

\* C5: in copy_ssh_keys, setup_sudoers, prepare_nodes and configure_firewall
\* a failing command stops neither the stage nor the run: once the stage is
\* left every node has received the stage's commands, in all_nodes order,
\* the next stage starts, the run never ends inside one of these stages, and
\* an exit code of 1 always has a fatal failure behind it.
C5_AdvisoryContinues ==
    /\ Left("copy_ssh_keys", {"copy_ssh_keys"}) =>
        /\ Issued(StageEntries("copy_ssh_keys")) = OnEveryNode(<<"ssh-copy-id">>)
        /\ Started("test_ssh_connections")
    /\ Left("setup_sudoers", {"setup_sudoers", "sudoers_chmod", "sudoers_test"}) =>
        /\ SudoersFirst = OnEveryNode(<<"sudo tee sudoers.d">>)
        /\ \/ ~args.skip_prep /\ Started("prepare_nodes")
           \/ args.skip_prep /\ ~args.skip_firewall /\ Started("configure_firewall")
           \/ args.skip_prep /\ args.skip_firewall /\ Started("terraform_init")
    /\ Left("prepare_nodes", {"prepare_nodes"}) =>
        /\ Issued(StageEntries("prepare_nodes")) = OnEveryNode(PrepCommands)
        /\ \/ ~args.skip_firewall /\ Started("configure_firewall")
           \/ args.skip_firewall /\ Started("terraform_init")
    /\ Left("configure_firewall", FirewallPositions) =>
        /\ \/ PortOpenings = AllPortOpenings
           \/ \E x \in DOMAIN log :
                log[x].cmd = "sudo ufw status" /\ SaysInactive(log[x].out)
        /\ Started("terraform_init")
    /\ (Done /\ steps # << >>) =>
        steps[Len(steps)] \notin
            {"copy_ssh_keys", "setup_sudoers", "prepare_nodes", "configure_firewall"}
    /\ (Done /\ exitCode = 1) => FatalFailure

\* A command of one of the four stages failed on the leader, every worker
\* was served all the same, and the run went on to exit 0.
C5_Witness ==
    /\ Done /\ exitCode = 0 /\ FullRun
    /\ Len(all_nodes) > 1
    /\ \E x \in DOMAIN log :
        /\ log[x].stage \in {"copy_ssh_keys", "setup_sudoers", "prepare_nodes",
                             "configure_firewall"}
        /\ log[x].cmd # "sudo ufw status"
        /\ log[x].host = master_ip
        /\ log[x].rc # 0
    /\ Issued(StageEntries("copy_ssh_keys")) = OnEveryNode(<<"ssh-copy-id">>)
    /\ SudoersFirst = OnEveryNode(<<"sudo tee sudoers.d">>)

\* ------------------------------------------------------------ C6

\* C6: with --destroy, whatever the other flags, the run issues the single
\* command terraform destroy -auto-approve and nothing else, enters no other
\* stage, and exits 0 if that command returned 0 and 1 otherwise.
C6_DestroyOnly ==
    args.destroy =>
        /\ Len(log) <= 1
        /\ \A x \in DOMAIN log : log[x].cmd = "terraform destroy -auto-approve"
        /\ \A n \in 1..Len(steps) : steps[n] = "terraform_destroy"
        /\ kubeconfig = << >>
        /\ Done => /\ Len(log) = 1
                   /\ exitCode = IF log[1].rc = 0 THEN 0 ELSE 1

\* --destroy together with every other flag: the teardown ran and failed.
C6_Witness ==
    /\ args.destroy /\ args.verify_only /\ args.skip_prep /\ args.skip_firewall
    /\ Done /\ exitCode = 1
    /\ Len(log) = 1

\* ------------------------------------------------------------ C7

\* The stages of a provisioning run in which nothing fatal fails.
ExpectedStages(a) ==
    <<"check_prerequisites", "generate_ssh_key", "copy_ssh_keys",
      "test_ssh_connections", "setup_sudoers">>
    \o (IF a.skip_prep THEN << >> ELSE <<"prepare_nodes">>)
    \o (IF a.skip_firewall THEN << >> ELSE <<"configure_firewall">>)
    \o <<"terraform_init", "terraform_validate", "terraform_plan",
         "terraform_apply", "verify_cluster">>

\* C7: in a provisioning run (the command line of scenario D: neither
\* --destroy nor --verify-only) --skip-prep suppresses exactly prepare_nodes
\* and --skip-firewall exactly configure_firewall: a skipped stage issues no
\* command at all (nor the leader's ufw status probe), and a run in which no
\* fatal stage fails enters exactly the other stages, in order, the stage
\* that is not skipped having issued its commands.
C7_SkipFlags ==
    FullRun =>
        /\ args.skip_prep => StageEntries("prepare_nodes") = << >>
        /\ args.skip_firewall => StageEntries("configure_firewall") = << >>
        /\ (Done /\ exitCode = 0) =>
            /\ steps = ExpectedStages(args)
            /\ ~args.skip_prep =>
                Issued(StageEntries("prepare_nodes")) = OnEveryNode(PrepCommands)
            /\ ~args.skip_firewall =>
                \E x \in DOMAIN log : LET e == log[x] IN e.cmd = "sudo ufw status"
            /\ \A n \in 1..(Len(log) - 1) :
                StageIndex(log[n].stage) <= StageIndex(log[n + 1].stage)

\* --skip-prep --skip-firewall, nothing fatal failed: stages 1-5 and 8-9 ran.
C7_Witness ==
    /\ FullRun /\ args.skip_prep /\ args.skip_firewall
    /\ Done /\ exitCode = 0
    /\ Len(steps) = 10

\* ------------------------------------------------------------ C8

\* The fixed subdirectory the terraform configuration lives in.
ClusterDir == <<"cluster">>

\* C8: every terraform init, validate, plan, apply and destroy runs with the
\* working directory set to the subdirectory "cluster" of the start directory
\* (stated for the runs started where that subdirectory exists).
C8_TerraformInClusterDir ==
    clusterDirExists =>
        \A x \in DOMAIN log : LET e == log[x] IN
            (e.cmd \in TerraformStepSet
                \/ e.cmd = "terraform destroy -auto-approve")
                => e.cwd = ClusterDir

\* ------------------------------------------------------------ C9

\* The value verify_cluster gives KUBECONFIG in a --verify-only run.
VerifyOnlyKubeconfig == <<"kubeconfig.yaml">>

\* C9: whenever the run has set KUBECONFIG, its value is the one fixed path,
\* the same after terraform apply as in a --verify-only run.
C9_KubeconfigFixed ==
    kubeconfig # << >> => kubeconfig = VerifyOnlyKubeconfig

\* ------------------------------------------------------------ C10

\* C10: as long as the key file is not removed between the prerequisite check
\* and generate_ssh_key, ssh-keygen is never issued: generate_ssh_key finds
\* the key file and does nothing, and a run that finds no key file at the
\* prerequisite check exits 1 there.
C10_NeverGenerates ==
    ~keyRemoved =>
        /\ \A x \in DOMAIN log : LET e == log[x] IN e.cmd # "ssh-keygen"
        /\ "generate_ssh_key" \in Range(steps) => keyExists
        /\ (PrereqReturned /\ ~keyExists) =>
            (Done /\ exitCode = 1 /\ "generate_ssh_key" \notin Range(steps))

\* generate_ssh_key has run on an existing key file and the run has gone on.
C10_Witness ==
    /\ ~keyRemoved
    /\ "generate_ssh_key" \in Range(steps)
    /\ "copy_ssh_keys" \in Range(steps)
    /\ \A x \in DOMAIN log : LET e == log[x] IN e.cmd # "ssh-keygen"

====
